---- MODULE Spec2Model ----
(***************************************************************************)
(* Key-resolution and token-verification core of the API gateway:          *)
(*   app/security/jwks_cache.py     JWKSCache                              *)
(*   app/security/jwt_validator.py  JWTValidator                           *)
(*   app/security/authz.py          _extract_scopes, check_scope_access    *)
(*   app/security/deps.py           get_current_user, require_scope,       *)
(*                                  require_any_scope                      *)
(*   app/security/mtls.py           TLSValidator.validate_tls_connection   *)
(*   app/api/routes_*.py            the routes and their dependencies      *)
(*   app/config.py                  Settings                               *)
(*                                                                         *)
(* One asyncio event loop runs the coroutines.  _fetch_jwks calls the      *)
(* blocking requests.get, so a coroutine that has started runs to its end  *)
(* without any other coroutine of the loop getting a turn; the states with *)
(* run.pc = "fetch" are the points where one HTTP request is outstanding.  *)
(* The clock and the remote endpoints move on their own.                   *)
(***************************************************************************)
EXTENDS Integers, Sequences, FiniteSets, TLC

VARIABLES
    cache,              \* JWKSCache._cache: cache key -> cached 'keys' list
    cache_timestamps,   \* JWKSCache._cache_timestamps: cache key -> fetch time
    lock,               \* JWKSCache._lock is held
    refresh_task,       \* JWKSCache._refresh_task: "None" | "sleeping" | "done"
    wake_at,            \* when the background task's asyncio.sleep ends
    live_tasks,         \* tasks running _background_refresh_loop that have not ended
    last_cycle,         \* the live task's last refresh cycle: "none" | "ok" | "failed"
    started_at,         \* when the live task was created (0 when none is live)
    allowed_issuers,    \* settings.allowed_issuers
    now,                \* time.time()
    run                 \* the coroutine the loop is running, and its record

vars ==
    <<cache, cache_timestamps, lock, refresh_task, wake_at, live_tasks, last_cycle,
      started_at, allowed_issuers, now, run>>

----------------------------------------------------------------------------
(* Bounds of the model *)

MaxTime == 2
MaxTokenTime == 4

----------------------------------------------------------------------------
(* Settings (app/config.py), in model time units *)

jwks_cache_ttl_sec == 2
jwks_background_refresh_sec == 1
max_clock_skew_sec == 1
cop_audience == "TSIAM"
\* ALLOWED_ISSUERS of the deployment, and the default of config.py, line 17
ConfiguredIssuers == <<"https://idp/issuer">>
DefaultIssuers == << >>

UrlPrimary == [netloc |-> "idp-a", path |-> "/jwks", query |-> ""]
UrlSecondary == [netloc |-> "idp-b", path |-> "/jwks", query |-> ""]

\* JWKSCache.__init__: primary first, then secondary
jwks_urls == <<UrlPrimary, UrlSecondary>>

\* JWKSCache._get_cache_key: f"{parsed.netloc}{parsed.path}"; the query is dropped
CacheKey(url) == <<url.netloc, url.path>>

----------------------------------------------------------------------------
(* Key records and endpoint responses *)

\* A JWK: its kid and the RSA key pair its n/e belong to ("bad": n/e that do
\* not convert to a public key).
Jwk(kid, mat) == [kid |-> kid, mat |-> mat]
None == [kid |-> "None", mat |-> "None"]

K1A == Jwk("k1", "A")
K1B == Jwk("k1", "B")
K2A == Jwk("k2", "A")
K1Bad == Jwk("k1", "bad")

\* An item of a 'keys' list that is no JSON object (1, "x", null): it has no
\* .get, so key.get('kid') raises AttributeError
NotAnObject == Jwk("", "not_an_object")

\* The 'keys' lists an endpoint may publish
KeyLists == {<< >>, <<K1A>>, <<K2A>>, <<K1A, K2A>>, <<K1A, K1B>>}

RespOk(keys) == [kind |-> "ok", keys |-> keys]
RespFail(kind) == [kind |-> kind, keys |-> << >>]
NoResp == RespFail("none")
FailureKinds == {"network_error", "http_error", "not_json", "no_keys_field"}
Responses == {RespOk(k) : k \in KeyLists} \cup {RespFail(f) : f \in FailureKinds}

\* kids a caller may ask for; "k3" is published nowhere
AskKids == {"k1", "k2", "k3"}

----------------------------------------------------------------------------
(* JWKSCache *)

Put(f, k, v) == [x \in (DOMAIN f) \cup {k} |-> IF x = k THEN v ELSE f[x]]

\* a lookup that returns the first record of the key set, whatever its kid
FindKeyFirstRecord(keys, kid) ==
    IF keys # << >> THEN keys[1] ELSE None

\* for key in jwks['keys']: if key.get('kid') == kid: return key
FindKey(keys, kid) ==
    IF \E i \in DOMAIN keys : keys[i].kid = kid
    THEN keys[CHOOSE i \in DOMAIN keys :
                  /\ keys[i].kid = kid
                  /\ \A j \in 1..(i - 1) : keys[j].kid # kid]
    ELSE None

\* if cache_key in self._cache: ... look in that entry
FindInEntry(c, url, kid) ==
    IF CacheKey(url) \in DOMAIN c THEN FindKey(c[CacheKey(url)], kid) ELSE None

\* get_key, first pass: the configured urls in order, first match
RECURSIVE FindCached(_, _, _)
FindCached(c, i, kid) ==
    IF i > Len(jwks_urls) THEN None
    ELSE IF FindInEntry(c, jwks_urls[i], kid) # None
         THEN FindInEntry(c, jwks_urls[i], kid)
         ELSE FindCached(c, i + 1, kid)

\* for key in jwks['keys']: if key.get('kid') == kid: the loop reaches an item
\* that is no object before it reaches a key with this kid
LookupRaises(keys, kid) ==
    \E i \in DOMAIN keys :
        /\ keys[i] = NotAnObject
        /\ \A j \in 1..(i - 1) : keys[j].kid # kid

\* get_key, first pass, lines 74-81 (outside any try): the lookup raises in the
\* entry of a url before a url whose entry holds the kid
RECURSIVE CachedLookupRaises(_, _, _)
CachedLookupRaises(c, i, kid) ==
    IF i > Len(jwks_urls) THEN FALSE
    ELSE IF /\ CacheKey(jwks_urls[i]) \in DOMAIN c
            /\ LookupRaises(c[CacheKey(jwks_urls[i])], kid)
         THEN TRUE
         ELSE IF FindInEntry(c, jwks_urls[i], kid) # None THEN FALSE
         ELSE CachedLookupRaises(c, i + 1, kid)

\* the TTL test with <= for <
CacheStillValidInclusive(ts, url, force_refresh, t) ==
    /\ ~force_refresh
    /\ CacheKey(url) \in DOMAIN ts
    /\ t - ts[CacheKey(url)] <= jwks_cache_ttl_sec

\* _fetch_jwks: the TTL test that skips the network on an unforced fetch
CacheStillValid(ts, url, force_refresh, t) ==
    /\ ~force_refresh
    /\ CacheKey(url) \in DOMAIN ts
    /\ t - ts[CacheKey(url)] < jwks_cache_ttl_sec

\* _fetch_jwks: requests.get / raise_for_status / response.json() / 'keys' test
FetchRaises(resp) == resp.kind \in FailureKinds

\* _fetch_jwks, lines 125-130: a body whose 'keys' list holds an item that is
\* no object passes the 'keys' test and is cached; then the kids are collected
\* for the log line and key.get raises (AttributeError, which _fetch_jwks does
\* not catch)
RaisesAfterCaching(resp) ==
    resp.kind = "ok" /\ \E i \in DOMAIN resp.keys : resp.keys[i] = NotAnObject

\* A forced fetch that validates the response but does not store it
FetchJwksForcedNotStored(c, ts, url, force_refresh, t, resp) ==
    IF CacheStillValid(ts, url, force_refresh, t)
    THEN [cache |-> c, ts |-> ts, net |-> FALSE, raised |-> FALSE]
    ELSE IF FetchRaises(resp)
    THEN [cache |-> c, ts |-> ts, net |-> TRUE, raised |-> TRUE]
    ELSE IF force_refresh
    THEN [cache |-> c, ts |-> ts, net |-> TRUE, raised |-> FALSE]
    ELSE [cache |-> Put(c, CacheKey(url), resp.keys),
          ts |-> Put(ts, CacheKey(url), t),
          net |-> TRUE, raised |-> FALSE]

\* A fetch that clears the endpoint's entry before it asks the endpoint
FetchJwksClearsFirst(c, ts, url, force_refresh, t, resp) ==
    IF CacheStillValid(ts, url, force_refresh, t)
    THEN [cache |-> c, ts |-> ts, net |-> FALSE, raised |-> FALSE]
    ELSE IF FetchRaises(resp)
    THEN [cache |-> [k \in (DOMAIN c) \ {CacheKey(url)} |-> c[k]],
          ts |-> [k \in (DOMAIN ts) \ {CacheKey(url)} |-> ts[k]],
          net |-> TRUE, raised |-> TRUE]
    ELSE [cache |-> Put(c, CacheKey(url), resp.keys),
          ts |-> Put(ts, CacheKey(url), t),
          net |-> TRUE, raised |-> FALSE]

\* A fetch that adds the response's keys to the keys cached for the endpoint
FetchJwksMerges(c, ts, url, force_refresh, t, resp) ==
    IF CacheStillValid(ts, url, force_refresh, t)
    THEN [cache |-> c, ts |-> ts, net |-> FALSE, raised |-> FALSE]
    ELSE IF FetchRaises(resp)
    THEN [cache |-> c, ts |-> ts, net |-> TRUE, raised |-> TRUE]
    ELSE [cache |-> Put(c, CacheKey(url),
                        (IF CacheKey(url) \in DOMAIN c THEN c[CacheKey(url)] ELSE << >>)
                            \o resp.keys),
          ts |-> Put(ts, CacheKey(url), t),
          net |-> TRUE, raised |-> FALSE]

\* _fetch_jwks(url, force_refresh) started at time t and answered by resp
FetchJwks(c, ts, url, force_refresh, t, resp) ==
    IF CacheStillValid(ts, url, force_refresh, t)
    THEN [cache |-> c, ts |-> ts, net |-> FALSE, raised |-> FALSE]
    ELSE IF FetchRaises(resp)
    THEN [cache |-> c, ts |-> ts, net |-> TRUE, raised |-> TRUE]
    ELSE [cache |-> Put(c, CacheKey(url), resp.keys),
          ts |-> Put(ts, CacheKey(url), t),
          net |-> TRUE, raised |-> RaisesAfterCaching(resp)]

----------------------------------------------------------------------------
(* Tokens *)

\* An optional claim is a sequence of length 0 (absent) or 1.
Absent == << >>
Has(opt) == Len(opt) = 1
Val(opt) == opt[1]

\* The aud claim on the wire: a string or a list of strings
AudStr(s) == [type |-> "str", vals |-> <<s>>]
AudList(l) == [type |-> "list", vals |-> l]
\* str() of an aud value, in parts
AudText(a) == IF a.type = "str" THEN a.vals ELSE <<"[">> \o a.vals \o <<"]">>

\* shape: "ok" (three segments, the first base64url JSON of an object),
\*        "segments" (not three segments), "header_garbage" (not base64url JSON),
\*        "header_not_object" (JSON, but no object);
\* kid, alg: the header fields, Absent when missing;
\* sig: the key pair whose private key signed header.payload ("forged": none);
\* the rest is the payload.
Token(shape, kid, alg, sig, iat, exp, nbf, sub, aud, iss, scope) ==
    [shape |-> shape, kid |-> kid, alg |-> alg, sig |-> sig,
     iat |-> iat, exp |-> exp, nbf |-> nbf, sub |-> sub, aud |-> aud, iss |-> iss,
     scope |-> scope]

NoToken ==
    Token("none", Absent, Absent, "none", Absent, Absent, Absent, Absent, Absent,
          Absent, Absent)

\* The time at which the tokens of the verification runs are presented
VerifyTime == 2

OptTimes == {Absent} \cup {<<t>> : t \in 0..MaxTokenTime}
Shapes == {"ok", "segments", "header_garbage", "header_not_object"}
HeaderKids == {Absent, <<"k1">>, <<"k3">>}
HeaderAlgs == {Absent, <<"RS256">>, <<"HS256">>, <<"none">>}
Signers == {"A", "B", "forged"}
Subs == {Absent, <<"S">>}
Auds == {Absent, <<AudStr("TSIAM")>>, <<AudStr("OTHER")>>,
         <<AudList(<<"OTHER", "TSIAM">>)>>, <<AudList(<<"TSIAM">>)>>}
Isss == {Absent, <<"https://idp/issuer">>, <<"https://evil/issuer">>}

GoodIat == <<VerifyTime>>
GoodExp == <<VerifyTime + 1>>
GoodNbf == <<VerifyTime>>

\* The scope claim on the wire: a string (its characters), a list (its items,
\* each a name, a sequence of characters) or a JSON value of another type
ScopeStr(chars) == [type |-> "str", chars |-> chars, items |-> << >>]
ScopeList(items) == [type |-> "list", chars |-> << >>, items |-> items]
ScopeOther(type) == [type |-> type, chars |-> << >>, items |-> << >>]

Read == <<"R", "e", "a", "d">>
Write == <<"W", "r", "i", "t", "e">>
Admin == <<"A">>
ScopeNames == {Read, Write, Admin}

\* " ".join(names)
RECURSIVE Join(_)
Join(names) ==
    IF names = << >> THEN << >>
    ELSE IF Len(names) = 1 THEN names[1]
    ELSE names[1] \o <<" ">> \o Join(Tail(names))

\* the number of items of the scope lists of the model
MaxScopes == 2

NameLists == UNION {[1..n -> ScopeNames] : n \in 0..MaxScopes}
\* strings that are more than names joined by single spaces
UntidyStrings ==
    {<<" ">> \o Read, Read \o <<" ", " ">> \o Write,
     Read \o <<"\t">> \o Write \o <<" ">>, <<" ", "\n">>}
WireScopes ==
    {Absent}
        \cup {<<ScopeList(l)>> : l \in NameLists}
        \cup {<<ScopeStr(Join(l))>> : l \in NameLists}
        \cup {<<ScopeStr(u)>> : u \in UntidyStrings}
        \cup {<<ScopeOther(t)>> : t \in {"int", "null", "dict"}}

\* "Read Write"
WireScope == <<ScopeStr(Join(<<Read, Write>>))>>

HeaderTokens ==
    {Token(s, k, a, g, GoodIat, GoodExp, GoodNbf, <<"S">>, <<AudStr("TSIAM")>>,
           <<"https://idp/issuer">>, WireScope) :
        s \in Shapes, k \in HeaderKids, a \in HeaderAlgs, g \in Signers}
TimeTokens ==
    {Token("ok", <<"k1">>, <<"RS256">>, "A", i, e, n, <<"S">>, <<AudStr("TSIAM")>>,
           <<"https://idp/issuer">>, WireScope) :
        i \in OptTimes, e \in OptTimes, n \in OptTimes}
ClaimTokens ==
    {Token("ok", <<"k1">>, a, "A", GoodIat, e, GoodNbf, s, d, i, WireScope) :
        a \in {<<"RS256">>, <<"HS256">>}, e \in {GoodExp, <<0>>, <<MaxTokenTime>>},
        s \in Subs, d \in Auds, i \in Isss}
ScopeTokens ==
    {Token("ok", <<"k1">>, <<"RS256">>, "A", GoodIat, GoodExp, GoodNbf, <<"S">>,
           <<AudStr("TSIAM")>>, <<"https://idp/issuer">>, s) : s \in WireScopes}
Tokens == HeaderTokens \cup TimeTokens \cup ClaimTokens \cup ScopeTokens

----------------------------------------------------------------------------
(* JWTValidator *)

NoClaims == << >>
NoError == << >>
Failed == "Token validation failed: "

\* What a step of validate_jwt yields: the claims, the error message (its parts),
\* or the exception that left it
Returned(claims, error) == [claims |-> claims, error |-> error, exc |-> ""]
Raised(exc, msg) == [claims |-> NoClaims, error |-> <<msg>>, exc |-> exc]
Passed == Returned(NoClaims, NoError)
IsPassed(o) == o = Passed

\* The payload as jwt.decode returns it
Payload(token) ==
    [iat |-> token.iat, exp |-> token.exp, nbf |-> token.nbf, sub |-> token.sub,
     aud |-> token.aud, iss |-> token.iss, scope |-> token.scope]

\* _parse_jwt_header that takes the part before the first dot, however many
\* parts there are
ParseJwtHeaderAnyParts(token) ==
    IF token.shape = "header_garbage"
    THEN Raised("JWTValidationError", "Failed to parse JWT header: (decoder message)")
    ELSE Passed

\* _parse_jwt_header: every failure is re-raised as JWTValidationError
ParseJwtHeader(token) ==
    IF token.shape = "segments"
    THEN Raised("JWTValidationError", "Failed to parse JWT header: Invalid JWT format")
    ELSE IF token.shape = "header_garbage"
    THEN Raised("JWTValidationError", "Failed to parse JWT header: (decoder message)")
    ELSE Passed

\* validate_jwt, lines 43-45: header.get('kid') and the test of it
HeaderKid(token) ==
    IF token.shape = "header_not_object"
    THEN Raised("AttributeError", "object has no attribute 'get'")
    ELSE IF ~Has(token.kid)
    THEN Returned(NoClaims, <<Failed, "Missing 'kid' in header">>)
    ELSE Passed

\* _jwk_to_pem
JwkToPem(jwk) ==
    IF jwk.mat = "bad"
    THEN Raised("JWTValidationError", "Failed to convert JWK to PEM: (message)")
    ELSE Passed

\* an issuer test that an empty list switches off
InListOrEmpty(x, l) == l = << >> \/ \E i \in DOMAIN l : l[i] = x

\* jwt.decode(token, public_key, algorithms=["RS256"], audience=cop_audience,
\* issuer=allowed_issuers, options=verify everything), no leeway: the exception
\* PyJWT raises (its class and message), NoExc when it returns the payload
InList(x, l) == \E i \in DOMAIN l : l[i] = x
Exc(class, msg) == <<class, msg>>
NoExc == << >>

\* jwt.decode called without algorithms=["RS256"]: whatever alg the header names
JwtDecodeAnyAlgorithm(token) ==
    IF ~Has(token.alg) THEN Exc("InvalidAlgorithmError", "Algorithm not specified")
    ELSE NoExc

JwtDecodeAlgorithm(token) ==
    IF ~Has(token.alg) THEN Exc("InvalidAlgorithmError", "Algorithm not specified")
    ELSE IF Val(token.alg) # "RS256"
    THEN Exc("InvalidAlgorithmError", "The specified alg value is not allowed")
    ELSE NoExc

\* "verify_signature": False
JwtDecodeSignatureOff(token, jwk) == NoExc

JwtDecodeSignature(token, jwk) ==
    IF token.sig # jwk.mat
    THEN Exc("InvalidSignatureError", "Signature verification failed")
    ELSE NoExc

JwtDecodeTimes(token, t) ==
    IF Has(token.iat) /\ Val(token.iat) > t
    THEN Exc("ImmatureSignatureError", "The token is not yet valid (iat)")
    ELSE IF Has(token.nbf) /\ Val(token.nbf) > t
    THEN Exc("ImmatureSignatureError", "The token is not yet valid (nbf)")
    ELSE IF Has(token.exp) /\ Val(token.exp) <= t
    THEN Exc("ExpiredSignatureError", "Signature has expired")
    ELSE NoExc

JwtDecodeIssuer(token) ==
    IF ~Has(token.iss)
    THEN Exc("MissingRequiredClaimError", "Token is missing the \"iss\" claim")
    ELSE IF ~InList(Val(token.iss), allowed_issuers)
    THEN Exc("InvalidIssuerError", "Invalid issuer")
    ELSE NoExc

\* jwt.decode called without audience=: aud is required, its value unchecked
JwtDecodeAudiencePresence(token) ==
    IF ~Has(token.aud)
    THEN Exc("MissingRequiredClaimError", "Token is missing the \"aud\" claim")
    ELSE NoExc

JwtDecodeAudience(token) ==
    IF ~Has(token.aud)
    THEN Exc("MissingRequiredClaimError", "Token is missing the \"aud\" claim")
    ELSE IF ~InList(cop_audience, Val(token.aud).vals)
    THEN Exc("InvalidAudienceError", "Audience doesn't match")
    ELSE NoExc

FirstError(errs) ==
    IF \E i \in DOMAIN errs : errs[i] # NoExc
    THEN errs[CHOOSE i \in DOMAIN errs :
                  errs[i] # NoExc /\ \A j \in 1..(i - 1) : errs[j] = NoExc]
    ELSE NoExc

\* a jwt.decode that verifies the audience and the issuer before the times
JwtDecodeAudienceFirst(token, jwk, t) ==
    FirstError(<<JwtDecodeAlgorithm(token), JwtDecodeSignature(token, jwk),
                 JwtDecodeAudience(token), JwtDecodeIssuer(token),
                 JwtDecodeTimes(token, t)>>)

\* PyJWT's order: algorithm, signature, then the claims iat, nbf, exp, iss, aud
JwtDecode(token, jwk, t) ==
    FirstError(<<JwtDecodeAlgorithm(token), JwtDecodeSignature(token, jwk),
                 JwtDecodeTimes(token, t), JwtDecodeIssuer(token),
                 JwtDecodeAudience(token)>>)

\* validate_jwt with the one clause 'except jwt.InvalidTokenError' around
\* jwt.decode
DecodeOutcomeOneClause(exc) ==
    IF exc = NoExc THEN Passed ELSE Returned(NoClaims, <<Failed, exc[2]>>)

\* validate_jwt, lines 72-79: the except clauses around jwt.decode
DecodeOutcome(exc) ==
    IF exc = NoExc THEN Passed
    ELSE IF exc[1] = "ExpiredSignatureError"
    THEN Returned(NoClaims, <<Failed, "Token has expired">>)
    ELSE IF exc[1] = "InvalidAudienceError"
    THEN Returned(NoClaims, <<Failed, "Invalid audience">>)
    ELSE IF exc[1] = "InvalidIssuerError"
    THEN Returned(NoClaims, <<Failed, "Invalid issuer">>)
    ELSE Returned(NoClaims, <<Failed, exc[2]>>)

\* current_time - claim > settings.max_clock_skew_sec, without abs
DriftPastOnly(opt, t) == Has(opt) /\ t - Val(opt) > max_clock_skew_sec

\* the difference taken with its sign
AbsSigned(x) == x

\* abs(current_time - claim) > settings.max_clock_skew_sec
Abs(x) == IF x < 0 THEN -x ELSE x
Drift(opt, t) == Has(opt) /\ Abs(t - Val(opt)) > max_clock_skew_sec

\* _validate_claims leaving audience and issuer to jwt.decode
ValidateClaimsWithoutAudience(claims, t) ==
    IF Has(claims.iat) /\ Abs(t - Val(claims.iat)) > max_clock_skew_sec
    THEN <<"Issued at time drift exceeds ", ToString(max_clock_skew_sec), " seconds">>
    ELSE IF Has(claims.exp) /\ Abs(t - Val(claims.exp)) > max_clock_skew_sec
    THEN <<"Expiration time drift exceeds ", ToString(max_clock_skew_sec), " seconds">>
    ELSE IF Has(claims.nbf) /\ Abs(t - Val(claims.nbf)) > max_clock_skew_sec
    THEN <<"Not before time drift exceeds ", ToString(max_clock_skew_sec), " seconds">>
    ELSE IF ~Has(claims.sub) THEN <<"Missing required claim: ", "sub">>
    ELSE IF ~Has(claims.aud) THEN <<"Missing required claim: ", "aud">>
    ELSE IF ~Has(claims.iss) THEN <<"Missing required claim: ", "iss">>
    ELSE << >>

\* _validate_claims: the message of the first failing check, NoError when none
ValidateClaims(claims, t) ==
    IF Drift(claims.iat, t)
    THEN <<"Issued at time drift exceeds ", ToString(max_clock_skew_sec), " seconds">>
    ELSE IF Drift(claims.exp, t)
    THEN <<"Expiration time drift exceeds ", ToString(max_clock_skew_sec), " seconds">>
    ELSE IF Drift(claims.nbf, t)
    THEN <<"Not before time drift exceeds ", ToString(max_clock_skew_sec), " seconds">>
    ELSE IF ~Has(claims.sub) THEN <<"Missing required claim: ", "sub">>
    ELSE IF ~Has(claims.aud) THEN <<"Missing required claim: ", "aud">>
    ELSE IF ~Has(claims.iss) THEN <<"Missing required claim: ", "iss">>
    ELSE IF Val(claims.aud) # AudStr(cop_audience)
    THEN <<"Invalid audience: expected '", cop_audience, "', got '">>
         \o AudText(Val(claims.aud)) \o <<"'">>
    ELSE IF ~InList(Val(claims.iss), allowed_issuers)
    THEN <<"Invalid issuer: '", Val(claims.iss), "' not in allowed issuers">>
    ELSE NoError

\* validate_jwt with a not-found message that leaves the kid out
VerifyWithKeyUnnamed(token, key_data, t) ==
    IF key_data = None
    THEN Returned(NoClaims, <<Failed, "Key not found">>)
    ELSE IF ~IsPassed(JwkToPem(key_data)) THEN JwkToPem(key_data)
    ELSE IF ~IsPassed(DecodeOutcome(JwtDecode(token, key_data, t)))
    THEN DecodeOutcome(JwtDecode(token, key_data, t))
    ELSE IF ValidateClaims(Payload(token), t) # NoError
    THEN Returned(NoClaims, <<Failed>> \o ValidateClaims(Payload(token), t))
    ELSE Returned(<<Payload(token)>>, NoError)

\* validate_jwt, lines 49-96: from the answer of get_key to the return
VerifyWithKey(token, key_data, t) ==
    IF key_data = None
    THEN Returned(NoClaims, <<Failed, "Key '", Val(token.kid), "' not found">>)
    ELSE IF ~IsPassed(JwkToPem(key_data)) THEN JwkToPem(key_data)
    ELSE IF ~IsPassed(DecodeOutcome(JwtDecode(token, key_data, t)))
    THEN DecodeOutcome(JwtDecode(token, key_data, t))
    ELSE IF ValidateClaims(Payload(token), t) # NoError
    THEN Returned(NoClaims, <<Failed>> \o ValidateClaims(Payload(token), t))
    ELSE Returned(<<Payload(token)>>, NoError)

\* except JWTValidationError in place of except Exception
CatchValidationErrorOnly(o) ==
    IF o.exc = "JWTValidationError" THEN Returned(NoClaims, <<Failed>> \o o.error) ELSE o

\* validate_jwt, lines 98-100: except Exception turns what was raised into an
\* error return
CatchException(o) ==
    IF o.exc = "" THEN o ELSE Returned(NoClaims, <<Failed>> \o o.error)

----------------------------------------------------------------------------
(* Scopes: JWTValidator.extract_scope / has_any_scope, authz._extract_scopes /
   check_scope_access, deps.require_any_scope *)

\* the characters str.split() and str.strip() take for whitespace
Whitespace == {" ", "\t", "\n"}

\* scope.split(): cut at every run of whitespace, no empty parts
RECURSIVE Split(_, _, _)
Split(chars, cur, acc) ==
    IF chars = << >>
    THEN IF cur = << >> THEN acc ELSE Append(acc, cur)
    ELSE IF Head(chars) \in Whitespace
    THEN Split(Tail(chars), << >>, IF cur = << >> THEN acc ELSE Append(acc, cur))
    ELSE Split(Tail(chars), Append(cur, Head(chars)), acc)

\* s.strip()
RECURSIVE LStrip(_)
LStrip(s) ==
    IF s # << >> /\ Head(s) \in Whitespace THEN LStrip(Tail(s)) ELSE s
RECURSIVE RStrip(_)
RStrip(s) ==
    IF s # << >> /\ s[Len(s)] \in Whitespace
    THEN RStrip(SubSeq(s, 1, Len(s) - 1)) ELSE s
Strip(s) == RStrip(LStrip(s))

\* [s.strip() for s in scope.split() if s.strip()]
NonEmpty(s) == Strip(s) # << >>
SplitScopes(chars) ==
    LET parts == SelectSeq(Split(chars, << >>, << >>), NonEmpty)
    IN  [i \in 1..Len(parts) |-> Strip(parts[i])]

\* extract_scope with the string taken for the list of scopes, unsplit
ExtractScopeUnsplit(claims) ==
    IF ~Has(claims.scope) THEN << >>
    ELSE IF Val(claims.scope).type = "str" THEN <<Val(claims.scope).chars>>
    ELSE IF Val(claims.scope).type = "list" THEN Val(claims.scope).items
    ELSE << >>

\* JWTValidator.extract_scope: claims.get('scope', []), then by type
ExtractScope(claims) ==
    IF ~Has(claims.scope) THEN << >>
    ELSE IF Val(claims.scope).type = "str" THEN SplitScopes(Val(claims.scope).chars)
    ELSE IF Val(claims.scope).type = "list" THEN Val(claims.scope).items
    ELSE << >>

\* _extract_scopes that knows the string form only
ExtractScopesStringOnly(claims) ==
    IF ~Has(claims.scope) THEN << >>
    ELSE IF Val(claims.scope).type = "str" THEN SplitScopes(Val(claims.scope).chars)
    ELSE << >>

\* authz._extract_scopes: the same code as extract_scope, a copy of it
ExtractScopes(claims) ==
    IF ~Has(claims.scope) THEN << >>
    ELSE IF Val(claims.scope).type = "str" THEN SplitScopes(Val(claims.scope).chars)
    ELSE IF Val(claims.scope).type = "list" THEN Val(claims.scope).items
    ELSE << >>

\* required_scopes as a caller passes it: one scope string or a list of them
ReqStr(name) == [type |-> "str", names |-> <<name>>]
ReqList(names) == [type |-> "list", names |-> names]

\* all(scope in user_scopes for scope in required_scopes)
AllScopes(required, user_scopes) ==
    \A i \in DOMAIN required : InList(required[i], user_scopes)

\* any(scope in user_scopes for scope in required_scopes)
AnyScope(required, user_scopes) ==
    \E i \in DOMAIN required : InList(required[i], user_scopes)

\* has_scope that looks at the first scope of the token only
HasScopeFirstOnly(claims, required_scope) ==
    /\ ExtractScope(claims) # << >>
    /\ ExtractScope(claims)[1] = required_scope

\* JWTValidator.has_scope: required_scope in scopes
HasScope(claims, required_scope) ==
    InList(required_scope, ExtractScope(claims))

\* JWTValidator.has_any_scope
HasAnyScope(claims, required_scopes) ==
    AnyScope(required_scopes, ExtractScope(claims))

\* authz.check_scope_access: a single string is wrapped in a list first
CheckScopeAccess(claims, required_scopes) ==
    AnyScope(required_scopes.names, ExtractScopes(claims))

\* the required scopes the callers of the model pass
RequiredLists ==
    {<< >>, <<Read>>, <<Write>>, <<Read, Write>>, <<Admin, Write>>, <<<<"X">>>>}
Requireds == {ReqList(l) : l \in RequiredLists} \cup {ReqStr(n) : n \in {Read, Write}}
RequiredNames == {Read, Write, <<"X">>}

----------------------------------------------------------------------------
(* The running coroutine *)

\* A request as it reaches the dependencies of its route: the scheme of its
\* URL, whether HTTPBearer found bearer credentials in it, and the route, that
\* is the dependency that guards it and the scope the dependency requires;
\* tls_enabled is the setting the TLSValidator was built with
Request(tls_enabled, scheme, credentials, route) ==
    [tls_enabled |-> tls_enabled, scheme |-> scheme, credentials |-> credentials,
     route |-> route]
Route(method, path, dep, required_scope) ==
    [method |-> method, path |-> path, dep |-> dep, required_scope |-> required_scope]

AuthValidate == Route("POST", "/api/v1/auth/validate", "get_current_user", << >>)
GetOnboardingApps == Route("GET", "/api/v1/onboarding/apps", "require_scope", Read)
CreateOnboardingApp == Route("POST", "/api/v1/onboarding/apps", "require_scope", Write)
Routes == {AuthValidate, GetOnboardingApps, CreateOnboardingApp}
Requests ==
    {Request(e, s, c, r) :
        e \in BOOLEAN, s \in {"https", "http"}, c \in BOOLEAN, r \in Routes}
NoRequest == Request(FALSE, "", FALSE, Route("", "", "", << >>))

\* The answer to a request: an HTTPException of a dependency (status and
\* detail.error_message, in parts), or the handler's answer (by = "handler")
HttpException(by, status, error_message) ==
    [by |-> by, status |-> status, error_message |-> error_message]
HandlerResponse == [by |-> "handler", status |-> 200, error_message |-> << >>]
NoResponse == [by |-> "", status |-> 0, error_message |-> << >>]

Idle ==
    [op |-> "idle", pc |-> "done", kid |-> "", idx |-> 0, t0 |-> 0, hit |-> FALSE,
     fetched |-> << >>, resp |-> NoResp, net |-> FALSE, raised |-> FALSE,
     result |-> None, token |-> NoToken, out |-> Passed,
     scopes |-> << >>, required |-> ReqList(<< >>), allowed |-> FALSE,
     errors |-> 0, started |-> FALSE, kids |-> << >>,
     req |-> NoRequest, response |-> NoResponse, attempts |-> 0,
     scope_checked |-> FALSE]

Free == run.pc = "done"

TypeOK ==
    /\ DOMAIN cache \subseteq {CacheKey(jwks_urls[i]) : i \in DOMAIN jwks_urls}
    /\ DOMAIN cache_timestamps = DOMAIN cache
    /\ \A k \in DOMAIN cache : cache_timestamps[k] \in 0..now
    /\ lock \in BOOLEAN
    /\ refresh_task \in {"None", "sleeping", "done"}
    /\ live_tasks \in 0..1
    /\ last_cycle \in {"none", "ok", "failed"}
    /\ started_at \in 0..now
    /\ allowed_issuers \in {ConfiguredIssuers, DefaultIssuers}
    /\ now \in 0..MaxTime
    /\ wake_at \in 0..(MaxTime + jwks_background_refresh_sec)
    /\ lock => run.pc = "fetch"

Init ==
    /\ cache = << >>
    /\ cache_timestamps = << >>
    /\ lock = FALSE
    /\ refresh_task = "None"
    /\ wake_at = 0
    /\ live_tasks = 0
    /\ last_cycle = "none"
    /\ started_at = 0
    /\ allowed_issuers = ConfiguredIssuers
    /\ now = 0
    /\ run = Idle

\* the clock
Tick ==
    /\ now < MaxTime
    /\ now' = now + 1
    /\ UNCHANGED <<cache, cache_timestamps, lock, refresh_task, wake_at, live_tasks,
                 last_cycle, started_at, allowed_issuers, run>>

\* mtls.validate_tls_connection, lines 38-54: nothing to check when TLS is not
\* enabled, else 426 unless the URL's scheme is https
ValidateTlsConnection(req) ==
    IF ~req.tls_enabled THEN NoResponse
    ELSE IF req.scheme # "https"
    THEN HttpException("tls", 426, <<"HTTPS connection required">>)
    ELSE NoResponse

\* a scope dependency that lets every authenticated user through
ScopeDependencyOpen(r) ==
    [r EXCEPT !.scope_checked = TRUE, !.scopes = ExtractScope(Val(r.out.claims)),
              !.required = ReqStr(r.req.route.required_scope),
              !.allowed = TRUE, !.response = HandlerResponse]

\* require_scope's scope_dependency, deps.py 121-142, on the claims
\* get_current_user returned: 403 unless required_scope is in the scopes, and
\* then the handler
ScopeDependency(r) ==
    LET user_scopes == ExtractScope(Val(r.out.claims))
        required_scope == r.req.route.required_scope
        c == [r EXCEPT !.scope_checked = TRUE, !.scopes = user_scopes,
                       !.required = ReqStr(required_scope),
                       !.allowed = InList(required_scope, user_scopes)]
    IN  IF ~InList(required_scope, user_scopes)
        THEN [c EXCEPT !.response =
                 HttpException("scope", 403,
                               <<"Insufficient scope. Required: ", required_scope>>)]
        ELSE [c EXCEPT !.response = HandlerResponse]

\* get_current_user, deps.py 55-81, from the return of validate_jwt on: 401
\* with the error, else the claims go to the route's scope dependency, if it
\* has one, and to the handler
AfterValidateJwt(r) ==
    IF r.out.error # NoError
    THEN [r EXCEPT !.response = HttpException("auth", 401, r.out.error)]
    ELSE IF r.req.route.dep = "require_scope" THEN ScopeDependency(r)
    ELSE [r EXCEPT !.response = HandlerResponse]

\* validate_jwt has returned: to its caller when called on its own, to
\* get_current_user in a request (no suspension in between)
Finish(r) == IF r.op = "request" THEN AfterValidateJwt(r) ELSE r

\* The caller of get_key takes its answer: get_key's own caller just has it,
\* validate_jwt goes on to verify the token with it (no suspension in between)
Return(r, key_data, t) ==
    IF r.op \in {"validate", "request"}
    THEN Finish([r EXCEPT !.pc = "done", !.result = key_data,
                          !.out = CatchException(VerifyWithKey(r.token, key_data, t))])
    ELSE [r EXCEPT !.pc = "done", !.result = key_data]

\* a loop that asks the same endpoint again
LoopNextSameUrl(idx) == idx
\* a loop left after its first turn
LoopDoneAfterFirst(idx) == idx = 1

\* for url in self._jwks_urls, line 85: the turn after turn idx
LoopNext(idx) == idx + 1
LoopDone(idx) == idx = Len(jwks_urls)

\* An exception leaves get_key: to the caller of get_key, or into validate_jwt,
\* whose 'except Exception' makes an error return of it
Escape(r, exc, msg) ==
    IF r.op \in {"validate", "request"}
    THEN Finish([r EXCEPT !.pc = "done", !.out = CatchException(Raised(exc, msg))])
    ELSE [r EXCEPT !.pc = "done", !.out = Raised(exc, msg)]

\* a first pass that looks only in the entries the TTL test would keep
FirstLookupWithinTtl(c, ts, kid, t) ==
    FindCached([k \in {j \in DOMAIN c : t - ts[j] < jwks_cache_ttl_sec} |-> c[k]],
               1, kid)

\* get_key, lines 74-81: the first pass looks in self._cache alone; the
\* timestamps and the time of the call take no part in it
FirstLookup(c, ts, kid, t) == FindCached(c, 1, kid)

\* get_key, lines 72-84: take the lock, look in the cache, on a miss go on to
\* the refresh loop; an exception of the lookup leaves get_key, the lock
\* released on the way
GetKeyEnter(r) ==
    /\ ~lock
    /\ LET found == FirstLookup(cache, cache_timestamps, r.kid, now)
       IN  IF CachedLookupRaises(cache, 1, r.kid)
           THEN /\ run' = Escape(r, "AttributeError",
                                 "'int' object has no attribute 'get'")
                /\ lock' = FALSE
           ELSE IF found # None
           THEN /\ run' = Return([r EXCEPT !.hit = TRUE], found, now)
                /\ lock' = FALSE
           ELSE /\ run' = [r EXCEPT !.pc = "fetch", !.idx = 1, !.t0 = now]
                /\ lock' = TRUE
    /\ UNCHANGED <<cache, cache_timestamps, refresh_task, wake_at, live_tasks,
                   last_cycle, started_at, allowed_issuers,
                 now>>

\* get_key(kid) called on its own
GetKeyBegin(kid) ==
    /\ Free
    /\ GetKeyEnter([Idle EXCEPT !.op = "get_key", !.kid = kid])

\* validate_jwt(token), lines 40-48: parse the header, take its kid, call get_key
ValidateJwt(r) ==
    LET h == ParseJwtHeader(r.token)
        k == HeaderKid(r.token)
    IN  IF ~IsPassed(h) \/ ~IsPassed(k)
        THEN /\ run' = Finish([r EXCEPT !.out =
                                  CatchException(IF ~IsPassed(h) THEN h ELSE k)])
             /\ UNCHANGED <<cache, cache_timestamps, lock, refresh_task, wake_at,
                            live_tasks, last_cycle, started_at, allowed_issuers, now>>
        ELSE GetKeyEnter([r EXCEPT !.kid = Val(r.token.kid)])

\* validate_jwt(token) called on its own
ValidateBegin(token) ==
    /\ Free
    /\ ValidateJwt([Idle EXCEPT !.op = "validate", !.token = token])

\* get_current_user, deps.py 35-53, for a request with the bearer token
\* 'token' (if it has credentials): the TLS check, then the credentials, then
\* the one call of validate_jwt (attempts counts the calls)
GetCurrentUser(req, token) ==
    /\ Free
    /\ LET r == [Idle EXCEPT !.op = "request", !.req = req, !.token = token]
           tls == ValidateTlsConnection(req)
       IN  IF tls # NoResponse
           THEN /\ run' = [r EXCEPT !.response = tls]
                /\ UNCHANGED <<cache, cache_timestamps, lock, refresh_task, wake_at,
                               live_tasks, last_cycle, started_at, allowed_issuers, now>>
           ELSE IF ~req.credentials
           THEN /\ run' = [r EXCEPT !.response =
                              HttpException("auth", 401,
                                            <<"Authorization header required">>)]
                /\ UNCHANGED <<cache, cache_timestamps, lock, refresh_task, wake_at,
                               live_tasks, last_cycle, started_at, allowed_issuers, now>>
           ELSE ValidateJwt([r EXCEPT !.attempts = 1])

\* get_key, lines 85-101: one turn of the refresh loop, the request to
\* jwks_urls[idx] answered by resp; the lookup after it is skipped when the
\* fetch raised
GetKeyFetch(resp) ==
    /\ run.op \in {"get_key", "validate", "request"}
    /\ run.pc = "fetch"
    /\ LET url == jwks_urls[run.idx]
           f == FetchJwks(cache, cache_timestamps, url, TRUE, run.t0, resp)
           found == IF f.raised THEN None ELSE FindInEntry(f.cache, url, run.kid)
           r == [run EXCEPT !.fetched = Append(@, run.idx), !.resp = resp,
                            !.net = f.net, !.raised = f.raised,
                            !.errors = IF f.raised THEN @ + 1 ELSE @]
       IN  /\ cache' = f.cache
           /\ cache_timestamps' = f.ts
           /\ IF found # None
              THEN /\ run' = Return(r, found, now)
                   /\ lock' = FALSE
              ELSE IF LoopDone(run.idx)
              THEN /\ run' = Return(r, None, now)
                   /\ lock' = FALSE
              ELSE /\ run' = [r EXCEPT !.idx = LoopNext(@), !.t0 = now]
                   /\ lock' = lock
    /\ UNCHANGED <<refresh_task, wake_at, live_tasks, last_cycle, started_at, allowed_issuers, now>>

\* if self._refresh_task is None
StartTaskOnlyFirst(task) == task = "None"
\* create_task without a test
StartTaskAlways(task) == TRUE

\* start_background_refresh, lines 37-39: a task is created only when none is live
StartTask(task) == task = "None" \/ task = "done"

\* a loop that refreshes first and sleeps afterwards
FirstWakeAtOnce(t) == t

\* _background_refresh_loop, lines 53-56: a task created at t begins with
\* asyncio.sleep(jwks_background_refresh_sec); its first cycle comes after it
FirstWake(t) == t + jwks_background_refresh_sec

\* start_background_refresh, lines 37-38: asyncio.create_task; the new task
\* begins with asyncio.sleep
CreateTask ==
    IF StartTask(refresh_task)
    THEN /\ refresh_task' = "sleeping"
         /\ wake_at' = FirstWake(now)
         /\ live_tasks' = live_tasks + 1
         /\ last_cycle' = "none"
         /\ started_at' = now
         /\ UNCHANGED allowed_issuers
    ELSE UNCHANGED <<refresh_task, wake_at, live_tasks, last_cycle, started_at, allowed_issuers>>

StartBackgroundRefresh ==
    /\ Free
    /\ run' = [Idle EXCEPT !.op = "start_background_refresh",
                           !.started = StartTask(refresh_task)]
    /\ CreateTask
    /\ UNCHANGED <<cache, cache_timestamps, lock, now>>

\* if self._refresh_task and self._refresh_task.done()
CancelTaskInverted(task) == task = "done"

\* stop_background_refresh, line 43: the task is there and has not ended
CancelTask(task) == task = "sleeping"

\* stop_background_refresh, lines 43-49: cancel the task and await its end; the
\* task is suspended in asyncio.sleep, where the CancelledError breaks its loop
StopBackgroundRefresh ==
    /\ Free
    /\ run' = [Idle EXCEPT !.op = "stop_background_refresh"]
    /\ IF CancelTask(refresh_task)
       THEN /\ refresh_task' = "done"
            /\ wake_at' = 0
            /\ live_tasks' = IF refresh_task = "sleeping" THEN live_tasks - 1
                                                          ELSE live_tasks
            /\ last_cycle' = "none"
            /\ started_at' = 0
            /\ UNCHANGED allowed_issuers
       ELSE UNCHANGED <<refresh_task, wake_at, live_tasks, last_cycle, started_at, allowed_issuers>>
    /\ UNCHANGED <<cache, cache_timestamps, lock, now>>

\* initialize, lines 147-149: begin the loop over the configured urls
InitializeBegin ==
    /\ Free
    /\ run' = [Idle EXCEPT !.op = "initialize", !.pc = "fetch", !.idx = 1, !.t0 = now]
    /\ UNCHANGED <<cache, cache_timestamps, lock, refresh_task, wake_at, live_tasks,
                 last_cycle, started_at, allowed_issuers, now>>

\* initialize, lines 149-157: the unforced fetch of jwks_urls[idx], its exception
\* swallowed; after the last url, start_background_refresh
InitializeFetch(resp) ==
    /\ run.op = "initialize"
    /\ run.pc = "fetch"
    /\ LET url == jwks_urls[run.idx]
           f == FetchJwks(cache, cache_timestamps, url, FALSE, run.t0, resp)
           r == [run EXCEPT !.fetched = Append(@, run.idx),
                            !.resp = IF f.net THEN resp ELSE NoResp,
                            !.net = f.net, !.raised = f.raised,
                            !.errors = IF f.raised THEN @ + 1 ELSE @]
       IN  /\ f.net \/ resp = NoResp
           /\ cache' = f.cache
           /\ cache_timestamps' = f.ts
           /\ IF LoopDone(run.idx)
              THEN /\ run' = [r EXCEPT !.pc = "done",
                                       !.started = StartTask(refresh_task)]
                   /\ CreateTask
              ELSE /\ run' = [r EXCEPT !.idx = LoopNext(@), !.t0 = now]
                   /\ UNCHANGED <<refresh_task, wake_at, live_tasks, last_cycle, started_at, allowed_issuers>>
    /\ UNCHANGED <<lock, now>>

\* _background_refresh_loop, line 55: asyncio.sleep has ended
BackgroundWake ==
    /\ Free
    /\ refresh_task = "sleeping"
    /\ now >= wake_at
    /\ run' = [Idle EXCEPT !.op = "background", !.pc = "fetch", !.idx = 1, !.t0 = now]
    /\ UNCHANGED <<cache, cache_timestamps, lock, refresh_task, wake_at, live_tasks,
                 last_cycle, started_at, allowed_issuers, now>>

\* except Exception: break
LoopEndsOnError(errors) == errors = 0

\* _background_refresh_loop, lines 53-60: after a cycle that logged this many
\* errors the while loop goes round again; only CancelledError breaks it
LoopContinues(errors) == TRUE

\* await self._fetch_jwks(url)
RefreshUnforced == FALSE

\* _refresh_all_jwks, line 66: await self._fetch_jwks(url, force_refresh=True)
RefreshForced == TRUE

\* _refresh_all_jwks, lines 64-68: the forced fetch of jwks_urls[idx], its
\* exception swallowed; after the last url the loop sleeps again
BackgroundFetch(resp) ==
    /\ run.op = "background"
    /\ run.pc = "fetch"
    /\ LET url == jwks_urls[run.idx]
           f == FetchJwks(cache, cache_timestamps, url, RefreshForced, run.t0, resp)
           r == [run EXCEPT !.fetched = Append(@, run.idx), !.resp = resp,
                            !.net = f.net, !.raised = f.raised,
                            !.errors = IF f.raised THEN @ + 1 ELSE @]
       IN  /\ cache' = f.cache
           /\ cache_timestamps' = f.ts
           /\ IF ~LoopDone(run.idx)
              THEN /\ run' = [r EXCEPT !.idx = LoopNext(@), !.t0 = now]
                   /\ UNCHANGED <<refresh_task, wake_at, live_tasks, last_cycle, started_at, allowed_issuers>>
              ELSE /\ run' = [r EXCEPT !.pc = "done"]
                   /\ IF LoopContinues(r.errors)
                      THEN /\ wake_at' = now + jwks_background_refresh_sec
                           /\ last_cycle' = IF r.errors = 0 THEN "ok" ELSE "failed"
                           /\ UNCHANGED <<refresh_task, live_tasks, started_at, allowed_issuers>>
                      ELSE /\ refresh_task' = "done"
                           /\ wake_at' = 0
                           /\ live_tasks' = live_tasks - 1
                           /\ last_cycle' = "none"
                           /\ started_at' = 0
                           /\ UNCHANGED allowed_issuers
    /\ UNCHANGED <<lock, now>>

\* The claims validate_jwt has returned, in the hands of its caller
Claims == Val(run.out.claims)
HasClaims == run.op = "validate" /\ run.pc = "done" /\ run.out.claims # NoClaims

\* deps.require_any_scope, lines 160-180: extract_scope of the claims that
\* get_current_user returned, then any(); 403 when no required scope is held
RequireAnyScope(required_scopes) ==
    /\ HasClaims
    /\ run' = [run EXCEPT !.op = "require_any_scope",
                          !.scopes = ExtractScope(Claims),
                          !.required = ReqList(required_scopes),
                          !.allowed = AnyScope(required_scopes, ExtractScope(Claims))]
    /\ UNCHANGED <<cache, cache_timestamps, lock, refresh_task, wake_at, live_tasks,
                 last_cycle, started_at, allowed_issuers, now>>

\* deps.require_scope, lines 121-142: extract_scope of the claims that
\* get_current_user returned, then 'required_scope not in user_scopes' -> 403
RequireScope(required_scope) ==
    /\ HasClaims
    /\ run' = [run EXCEPT !.op = "require_scope",
                          !.scopes = ExtractScope(Claims),
                          !.required = ReqStr(required_scope),
                          !.allowed = InList(required_scope, ExtractScope(Claims))]
    /\ UNCHANGED <<cache, cache_timestamps, lock, refresh_task, wake_at, live_tasks,
                 last_cycle, started_at, allowed_issuers, now>>

\* jwt_validator.has_scope(claims, required_scope)
HasScopeCall(required_scope) ==
    /\ HasClaims
    /\ run' = [run EXCEPT !.op = "has_scope",
                          !.scopes = ExtractScope(Claims),
                          !.required = ReqStr(required_scope),
                          !.allowed = HasScope(Claims, required_scope)]
    /\ UNCHANGED <<cache, cache_timestamps, lock, refresh_task, wake_at, live_tasks,
                 last_cycle, started_at, allowed_issuers, now>>

\* jwt_validator.has_any_scope(claims, required_scopes)
HasAnyScopeCall(required_scopes) ==
    /\ HasClaims
    /\ run' = [run EXCEPT !.op = "has_any_scope",
                          !.scopes = ExtractScope(Claims),
                          !.required = ReqList(required_scopes),
                          !.allowed = HasAnyScope(Claims, required_scopes)]
    /\ UNCHANGED <<cache, cache_timestamps, lock, refresh_task, wake_at, live_tasks,
                 last_cycle, started_at, allowed_issuers, now>>

\* authz.check_scope_access(claims, required_scopes)
CheckScopeAccessCall(required_scopes) ==
    /\ HasClaims
    /\ run' = [run EXCEPT !.op = "check_scope_access",
                          !.scopes = ExtractScopes(Claims),
                          !.required = required_scopes,
                          !.allowed = CheckScopeAccess(Claims, required_scopes)]
    /\ UNCHANGED <<cache, cache_timestamps, lock, refresh_task, wake_at, live_tasks,
                 last_cycle, started_at, allowed_issuers, now>>

\* get_cached_keys, lines 161-166: the kids of every cached key set; a plain
\* function, it takes no lock
GetCachedKeys ==
    /\ Free
    /\ run' = [Idle EXCEPT !.op = "get_cached_keys",
                           !.kids = [k \in DOMAIN cache |->
                                        [i \in DOMAIN cache[k] |-> cache[k][i].kid]]]
    /\ UNCHANGED <<cache, cache_timestamps, lock, refresh_task, wake_at, live_tasks,
                   last_cycle, started_at, allowed_issuers, now>>

Next ==
    \/ Tick
    \/ \E kid \in AskKids : GetKeyBegin(kid)
    \/ \E resp \in Responses : GetKeyFetch(resp)
    \/ InitializeBegin
    \/ \E resp \in Responses \cup {NoResp} : InitializeFetch(resp)
    \/ StartBackgroundRefresh
    \/ StopBackgroundRefresh
    \/ BackgroundWake
    \/ \E resp \in Responses : BackgroundFetch(resp)
    \/ GetCachedKeys

Spec == Init /\ [][Next]_vars

----------------------------------------------------------------------------
(* Verification runs: a token presented at VerifyTime to a service whose cache
   initialize has filled, or failed to fill, from the primary endpoint *)

K1Entry(jwk) == Put(<< >>, CacheKey(UrlPrimary), <<jwk>>)

VCaches == {<< >>, K1Entry(K1A), K1Entry(K1B), K1Entry(K1Bad)}
VResponses == {RespOk(<<K1A>>), RespOk(<<K1B>>), RespFail("network_error")}

VInit ==
    /\ cache \in VCaches
    /\ cache_timestamps = [k \in DOMAIN cache |-> 0]
    /\ lock = FALSE
    /\ refresh_task = "sleeping"
    /\ wake_at = jwks_background_refresh_sec
    /\ live_tasks = 1
    /\ last_cycle = "none"
    /\ started_at = 0
    /\ allowed_issuers = ConfiguredIssuers
    /\ now = VerifyTime
    /\ run \in {[Idle EXCEPT !.token = token] : token \in Tokens}

\* one validate_jwt call, of the token the run was given
VNext ==
    \/ run.op = "idle" /\ ValidateBegin(run.token)
    \/ \E resp \in VResponses : GetKeyFetch(resp)
    \/ \E required \in RequiredLists : RequireAnyScope(required)
    \/ \E required \in RequiredLists : HasAnyScopeCall(required)
    \/ \E required \in Requireds : CheckScopeAccessCall(required)
    \/ \E required \in RequiredNames : RequireScope(required)
    \/ \E required \in RequiredNames : HasScopeCall(required)

VSpec == VInit /\ [][VNext]_vars

\* validate_jwt under the default settings of config.py: allowed_issuers = []
DInit ==
    /\ cache \in VCaches
    /\ cache_timestamps = [k \in DOMAIN cache |-> 0]
    /\ lock = FALSE
    /\ refresh_task = "sleeping"
    /\ wake_at = jwks_background_refresh_sec
    /\ live_tasks = 1
    /\ last_cycle = "none"
    /\ started_at = 0
    /\ allowed_issuers = DefaultIssuers
    /\ now = VerifyTime
    /\ run \in {[Idle EXCEPT !.token = token] : token \in Tokens}

DNext ==
    \/ run.op = "idle" /\ ValidateBegin(run.token)
    \/ \E resp \in VResponses : GetKeyFetch(resp)

DSpec == DInit /\ [][DNext]_vars

----------------------------------------------------------------------------
(* get_key against endpoints that fail or answer 200 with a body that is not
   a key set *)

MKeyLists == {<<K1A>>, <<NotAnObject>>, <<K1A, NotAnObject>>}
MResponses ==
    {RespOk(k) : k \in MKeyLists}
        \cup {RespFail(f) : f \in {"network_error", "not_json"}}

MInit ==
    /\ cache \in {<< >>, K1Entry(K1A)}
    /\ cache_timestamps = [k \in DOMAIN cache |-> 0]
    /\ lock = FALSE
    /\ refresh_task = "sleeping"
    /\ wake_at = jwks_background_refresh_sec
    /\ live_tasks = 1
    /\ last_cycle = "none"
    /\ started_at = 0
    /\ allowed_issuers = ConfiguredIssuers
    /\ now = 0
    /\ run = Idle

MNext ==
    \/ Tick
    \/ \E kid \in AskKids : GetKeyBegin(kid)
    \/ \E resp \in MResponses : GetKeyFetch(resp)

MSpec == MInit /\ [][MNext]_vars

\* A configuration whose two endpoints are one host and path with two query
\* strings: JWKS_URL_PRIMARY=https://idp-a/jwks?tenant=a,
\* JWKS_URL_SECONDARY=https://idp-a/jwks?tenant=b
UrlTenantA == [netloc |-> "idp-a", path |-> "/jwks", query |-> "tenant=a"]
UrlTenantB == [netloc |-> "idp-a", path |-> "/jwks", query |-> "tenant=b"]
TenantUrls == <<UrlTenantA, UrlTenantB>>

\* _refresh_all_jwks under that configuration, line 64: for url in
\* self._jwks_urls
RefreshAllBegin ==
    /\ Free
    /\ run' = [Idle EXCEPT !.op = "refresh_all", !.pc = "fetch", !.idx = 1, !.t0 = now]
    /\ UNCHANGED <<cache, cache_timestamps, lock, refresh_task, wake_at, live_tasks,
                   last_cycle, started_at, allowed_issuers, now>>

\* _refresh_all_jwks, lines 65-68: the forced fetch of the url at idx, its
\* exception swallowed
RefreshAllFetch(resp) ==
    /\ run.op = "refresh_all"
    /\ run.pc = "fetch"
    /\ LET f == FetchJwks(cache, cache_timestamps, TenantUrls[run.idx],
                          RefreshForced, run.t0, resp)
           r == [run EXCEPT !.fetched = Append(@, run.idx), !.resp = resp,
                            !.net = f.net, !.raised = f.raised,
                            !.errors = IF f.raised THEN @ + 1 ELSE @]
       IN  /\ cache' = f.cache
           /\ cache_timestamps' = f.ts
           /\ run' = IF run.idx < Len(TenantUrls)
                     THEN [r EXCEPT !.idx = @ + 1, !.t0 = now]
                     ELSE [r EXCEPT !.pc = "done"]
    /\ UNCHANGED <<lock, refresh_task, wake_at, live_tasks, last_cycle, started_at, allowed_issuers, now>>

QInit ==
    /\ cache = << >>
    /\ cache_timestamps = << >>
    /\ lock = FALSE
    /\ refresh_task = "sleeping"
    /\ wake_at = jwks_background_refresh_sec
    /\ live_tasks = 1
    /\ last_cycle = "none"
    /\ started_at = 0
    /\ allowed_issuers = ConfiguredIssuers
    /\ now = 0
    /\ run = Idle

QNext ==
    \/ Tick
    \/ RefreshAllBegin
    \/ \E resp \in Responses : RefreshAllFetch(resp)

QSpec == QInit /\ [][QNext]_vars

----------------------------------------------------------------------------
(* Requests: one request presented at VerifyTime *)

RequestTokens ==
    ScopeTokens
        \cup {t \in HeaderTokens : t.alg = <<"RS256">> /\ t.sig \in {"A", "forged"}}
        \cup {t \in TimeTokens : t.iat = GoodIat /\ t.nbf = GoodNbf}

RInit ==
    /\ cache \in VCaches
    /\ cache_timestamps = [k \in DOMAIN cache |-> 0]
    /\ lock = FALSE
    /\ refresh_task = "sleeping"
    /\ wake_at = jwks_background_refresh_sec
    /\ live_tasks = 1
    /\ last_cycle = "none"
    /\ started_at = 0
    /\ allowed_issuers = ConfiguredIssuers
    /\ now = VerifyTime
    /\ run \in {[Idle EXCEPT !.req = req, !.token = token] :
                   req \in Requests, token \in RequestTokens}

RNext ==
    \/ run.op = "idle" /\ GetCurrentUser(run.req, run.token)
    \/ \E resp \in VResponses : GetKeyFetch(resp)

RSpec == RInit /\ [][RNext]_vars

----------------------------------------------------------------------------
(* Properties *)

AllUrls == [i \in 1..Len(jwks_urls) |-> i]
LastFetched == jwks_urls[run.fetched[Len(run.fetched)]]
Validated == run.op = "validate" /\ run.pc = "done"
Accepted == Validated /\ run.out.claims # NoClaims
InWindow(opt) == Has(opt) => Abs(now - Val(opt)) <= max_clock_skew_sec
FetchStep == run'.fetched # run.fetched /\ run'.net

\* C1: key rotation.  In a get_key(K) call that missed the cache, as soon as an
\* endpoint answers with a key set that publishes K the call has returned K's
\* record from that answer; and the call gives up (None) only after it has
\* asked every configured endpoint, so an endpoint that publishes K is reached.
KeyRotation ==
    (run.op = "get_key" /\ ~run.hit) =>
        /\ (run.resp.kind = "ok" /\ \E i \in DOMAIN run.resp.keys :
                                        run.resp.keys[i].kid = run.kid)
               => /\ run.pc = "done"
                  /\ run.result.kid = run.kid
                  /\ \E i \in DOMAIN run.resp.keys : run.resp.keys[i] = run.result
        /\ (run.pc = "done" /\ run.result = None) => run.fetched = AllUrls

\* K was not cached, the primary endpoint's entry was there without it, the
\* primary did not deliver it and the secondary did
KeyRotationWitness ==
    /\ run.op = "get_key" /\ run.pc = "done" /\ ~run.hit
    /\ run.kid = "k2" /\ run.result = K2A
    /\ run.fetched = AllUrls
    /\ CacheKey(UrlPrimary) \in DOMAIN cache

\* C2: staleness over emptiness.  A fetch step (of initialize, of the background
\* loop or of get_key) whose request ends in a network error, an HTTP error
\* status, a body that is not JSON or a body without 'keys' raises and leaves
\* the cache and its timestamps exactly as they were.
StalenessOverEmptiness ==
    [][(FetchStep /\ run'.resp.kind \in FailureKinds)
           => /\ run'.raised
              /\ cache' = cache
              /\ cache_timestamps' = cache_timestamps]_vars

\* the background loop's fetch of an endpoint failed while that endpoint had a
\* non-empty key set cached
StalenessOverEmptinessWitness ==
    /\ run.op = "background" /\ run.raised /\ run.resp.kind = "http_error"
    /\ CacheKey(LastFetched) \in DOMAIN cache
    /\ cache[CacheKey(LastFetched)] # << >>

\* C3: validate_jwt returns claims only for a token that passed every step:
\* three segments and a kid, the kid resolved to a cached key, alg RS256, signed
\* by that key's pair, iat/exp/nbf within the skew, sub/aud/iss present, aud the
\* expected audience, iss in the allow-list.
ClaimsOnlyAfterEveryCheck ==
    Accepted =>
        /\ run.token.shape = "ok" /\ Has(run.token.kid)
        /\ run.result # None /\ run.result.kid = Val(run.token.kid)
        /\ \E k \in DOMAIN cache : \E i \in DOMAIN cache[k] : cache[k][i] = run.result
        /\ run.token.alg = <<"RS256">>
        /\ run.token.sig = run.result.mat
        /\ InWindow(run.token.iat) /\ InWindow(run.token.exp) /\ InWindow(run.token.nbf)
        /\ Has(run.token.sub) /\ Has(run.token.aud) /\ Has(run.token.iss)
        /\ Val(run.token.aud) = AudStr(cop_audience)
        /\ InList(Val(run.token.iss), allowed_issuers)
        /\ run.out = Returned(<<Payload(run.token)>>, NoError)

\* a token accepted with a key that the forced refresh brought in
ClaimsOnlyAfterEveryCheckWitness ==
    Accepted /\ ~run.hit /\ run.fetched # << >>

\* C4: validate_jwt ends with exactly one of claims and error set and with no
\* exception leaving it, whatever the token, the cache and the endpoints'
\* answers; while it waits for an endpoint it has asked each endpoint before
\* the current one once, so it ends after at most Len(jwks_urls) requests.
ExactlyOneOutcome ==
    run.op = "validate" =>
        /\ run.pc = "done" =>
               /\ run.out.exc = ""
               /\ (run.out.claims = NoClaims) # (run.out.error = NoError)
        /\ run.pc = "fetch" =>
               /\ run.idx \in 1..Len(jwks_urls)
               /\ run.fetched = [i \in 1..(run.idx - 1) |-> i]

\* the header is JSON but no object: header.get raised AttributeError, and the
\* call still returned an error
ExactlyOneOutcomeWitness ==
    /\ Validated /\ run.token.shape = "header_not_object"
    /\ run.out.error = <<Failed, "object has no attribute 'get'">>

\* C5 as stated: after a miss, get_key has fetched every configured endpoint
\* once when it returns.
RefreshEveryEndpoint ==
    (run.op = "get_key" /\ run.pc = "done" /\ ~run.hit) => run.fetched = AllUrls

\* C5, amended: after a miss get_key force-fetches the configured endpoints in
\* order, each at most once; a fetch that raises moves on to the next endpoint;
\* after each fetch that succeeds it looks the kid up in that endpoint's entry
\* and returns at the first match, leaving the later endpoints unfetched; it
\* returns None only after every endpoint has been fetched.
RefreshUntilFound ==
    (run.op = "get_key" /\ ~run.hit) =>
        /\ run.fetched = [i \in 1..Len(run.fetched) |-> i]
        /\ Len(run.fetched) <= Len(jwks_urls)
        /\ run.pc = "fetch" =>
               /\ run.idx = Len(run.fetched) + 1
               /\ run.idx <= Len(jwks_urls)
               /\ lock
        /\ (run.pc = "done" /\ run.result = None) => run.fetched = AllUrls
        /\ (run.pc = "done" /\ run.result # None) =>
               /\ run.fetched # << >>
               /\ ~run.raised
               /\ run.resp.kind = "ok"
               /\ cache[CacheKey(LastFetched)] = run.resp.keys
               /\ run.result.kid = run.kid
               /\ \E i \in DOMAIN run.resp.keys :
                      /\ run.resp.keys[i] = run.result
                      /\ \A j \in 1..(i - 1) : run.resp.keys[j].kid # run.kid

\* the kid was found at the primary endpoint and the secondary was not asked
RefreshUntilFoundWitness ==
    /\ run.op = "get_key" /\ run.pc = "done" /\ ~run.hit
    /\ run.result # None /\ run.fetched = <<1>>

\* C6: get_key of a kid that no endpoint publishes never finds it, asks each
\* endpoint at most once, in order, and returns None once the last endpoint
\* has answered, whether the fetches succeed, fail or bring nothing.
NeverPublished == "k3"

NeverPublishedNotFound ==
    (run.op = "get_key" /\ run.kid = NeverPublished) =>
        /\ \A keys \in KeyLists : \A i \in DOMAIN keys : keys[i].kid # NeverPublished
        /\ ~run.hit /\ run.result = None
        /\ run.fetched = [i \in 1..Len(run.fetched) |-> i]
        /\ Len(run.fetched) <= Len(jwks_urls)
        /\ run.pc = "fetch" => Len(run.fetched) < Len(jwks_urls)
        /\ run.pc = "done" => (run.fetched = AllUrls /\ ~lock)

\* not found after the primary failed and the secondary answered with keys
NeverPublishedNotFoundWitness ==
    /\ run.op = "get_key" /\ run.kid = NeverPublished /\ run.pc = "done"
    /\ run.fetched = AllUrls /\ run.resp.kind = "ok" /\ run.resp.keys # << >>
    /\ CacheKey(UrlPrimary) \notin DOMAIN cache

\* C7: a fetch answered by an empty key collection leaves the endpoint's cached
\* key set and its timestamp as they were.
EmptyKeySetIsFailure ==
    [][(FetchStep /\ run'.resp = RespOk(<< >>))
           => (cache' = cache /\ cache_timestamps' = cache_timestamps)]_vars

\* C8 as stated: a correctly signed token that passes the non-temporal checks
\* is accepted iff each of iat, exp, nbf that it carries is within the skew of
\* now, on either side.
NonTemporalOk ==
    /\ Validated
    /\ run.token.shape = "ok" /\ Has(run.token.kid)
    /\ run.result # None /\ run.result.mat = run.token.sig
    /\ run.token.alg = <<"RS256">>
    /\ Has(run.token.sub)
    /\ run.token.aud = <<AudStr(cop_audience)>>
    /\ Has(run.token.iss) /\ InList(Val(run.token.iss), allowed_issuers)

SymmetricSkewWindow ==
    NonTemporalOk =>
        (Accepted <=> (/\ InWindow(run.token.iat)
                       /\ InWindow(run.token.exp)
                       /\ InWindow(run.token.nbf)))

\* C8, amended: such a token is accepted iff each of iat, exp, nbf that it
\* carries is within the skew of now and, besides, exp is later than now and
\* nbf and iat are not later than now (jwt.decode checks these without leeway);
\* so exp in the past, or nbf or iat in the future, is rejected even within the
\* skew.
SkewWindowAndExpiry ==
    NonTemporalOk =>
        (Accepted <=> (/\ InWindow(run.token.iat)
                       /\ InWindow(run.token.exp)
                       /\ InWindow(run.token.nbf)
                       /\ Has(run.token.exp) => Val(run.token.exp) > now
                       /\ Has(run.token.nbf) => Val(run.token.nbf) <= now
                       /\ Has(run.token.iat) => Val(run.token.iat) <= now))

\* accepted at the edges: iat the skew before now, exp the skew after now
SkewWindowAndExpiryWitness ==
    /\ NonTemporalOk /\ Accepted
    /\ run.token.iat = <<now - max_clock_skew_sec>>
    /\ run.token.exp = <<now + max_clock_skew_sec>>
    /\ run.token.nbf = <<now>>

\* C9: a token whose header names no alg, or one other than RS256, ends in an
\* error and never in claims, whatever key is cached under its kid.
OnlyRS256 ==
    (Validated /\ run.token.alg # <<"RS256">>) =>
        (run.out.claims = NoClaims /\ run.out.error # NoError)

\* an HS256 token, its kid cached and all its claims good, refused for its alg
OnlyRS256Witness ==
    /\ Validated /\ run.token.alg = <<"HS256">> /\ run.token.sig = "A"
    /\ run.result = K1A
    /\ run.out.error = <<Failed, "The specified alg value is not allowed">>

\* C10: a token is accepted only if its aud is the string cop_audience itself
\* and its iss is in allowed_issuers; an aud that is a list, even one that
\* holds cop_audience, is refused.
ExactAudienceAllowedIssuer ==
    /\ Accepted =>
           /\ run.token.aud = <<AudStr(cop_audience)>>
           /\ Has(run.token.iss) /\ InList(Val(run.token.iss), allowed_issuers)
    /\ (Validated /\ Has(run.token.aud) /\ Val(run.token.aud).type = "list")
           => run.out.claims = NoClaims

\* a good token but for its aud, the list ['TSIAM']: refused by _validate_claims
ExactAudienceAllowedIssuerWitness ==
    /\ Validated /\ run.token.aud = <<AudList(<<cop_audience>>)>>
    /\ run.out.error = <<Failed, "Invalid audience: expected '", cop_audience,
                         "', got '", "[", cop_audience, "]", "'">>

ScopeOps ==
    {"require_any_scope", "has_any_scope", "check_scope_access", "require_scope",
     "has_scope"}
ScopeOp == run.op \in ScopeOps
Range(seq) == {seq[i] : i \in DOMAIN seq}
OtherType(opt) == Has(opt) /\ Val(opt).type \notin {"str", "list"}

ScopeWireIndependence ==
    ScopeOp =>
        LET w == run.token.scope
        IN  /\ ~Has(w) => run.scopes = << >>
            /\ (Has(w) /\ Val(w).type = "list") => run.scopes = Val(w).items
            /\ (Has(w) /\ Val(w).type = "str") =>
                   \A l \in NameLists : Val(w).chars = Join(l) => run.scopes = l
            /\ OtherType(w) => run.scopes = << >>

\* _extract_scopes has turned the string "Write A" into the list form's value
ScopeWireIndependenceWitness ==
    /\ run.op = "check_scope_access"
    /\ run.token.scope = <<ScopeStr(Join(<<Write, Admin>>))>>
    /\ run.scopes = <<Write, Admin>>

\* C13: the scope decision is allow iff the normalized scopes of the claims
\* and the required scopes have a scope in common; it is deny whenever the
\* claims hold no scopes, and deny when no scope is required.
ScopeDecision ==
    ScopeOp =>
        /\ run.allowed <=> (Range(run.scopes) \cap Range(run.required.names) # {})
        /\ run.scopes = << >> => ~run.allowed
        /\ run.required.names = << >> => ~run.allowed

\* allowed on the second of two required scopes, the first one not held
ScopeDecisionWitness ==
    /\ run.op = "require_any_scope" /\ run.allowed
    /\ Len(run.required.names) = 2
    /\ run.required.names[1] \notin Range(run.scopes)

\* C14: initialize calls _fetch_jwks once for every configured endpoint, in
\* order, whether the earlier fetches raised or not, and when it returns,
\* which it does however many of the fetches raised, the background refresh
\* task is running.
InitializeFetchesAll ==
    run.op = "initialize" =>
        /\ run.errors <= Len(run.fetched)
        /\ run.pc = "fetch" =>
               /\ run.idx \in 1..Len(jwks_urls)
               /\ run.fetched = [i \in 1..(run.idx - 1) |-> i]
        /\ run.pc = "done" =>
               /\ run.fetched = AllUrls
               /\ refresh_task = "sleeping"
               /\ live_tasks = 1

\* initialize has returned and started the task though every fetch raised
InitializeFetchesAllWitness ==
    /\ run.op = "initialize" /\ run.pc = "done"
    /\ run.errors = Len(jwks_urls) /\ cache = << >>
    /\ run.started /\ refresh_task = "sleeping"

\* C15: whatever initialize, start_background_refresh and
\* stop_background_refresh calls have been made, at most one background
\* refresh task is live, and it is the one _refresh_task refers to.
OneRefreshTask ==
    /\ live_tasks <= 1
    /\ live_tasks = 1 <=> refresh_task = "sleeping"

\* initialize called while a task was running has returned without creating one
OneRefreshTaskWitness ==
    /\ run.op = "initialize" /\ run.pc = "done"
    /\ ~run.started /\ live_tasks = 1

\* C16: a step of stop_background_refresh leaves no background task live and
\* touches nothing else; on a cache whose task was never started or has been
\* stopped already it changes nothing at all; a background refresh cycle
\* begins only while a task is live, and a task becomes live only by
\* start_background_refresh or initialize.
StopStep == run'.op = "stop_background_refresh" /\ now' = now

TaskStopped ==
    [][/\ StopStep =>
              /\ refresh_task' # "sleeping" /\ live_tasks' = 0
              /\ cache' = cache /\ cache_timestamps' = cache_timestamps
              /\ lock' = lock
              /\ refresh_task # "sleeping" =>
                     UNCHANGED <<refresh_task, wake_at, live_tasks, last_cycle, started_at, allowed_issuers>>
       /\ (run'.op = "background" /\ run' # run) =>
              (refresh_task = "sleeping" /\ live_tasks = 1)
       /\ (refresh_task # "sleeping" /\ refresh_task' = "sleeping") =>
              run'.op \in {"start_background_refresh", "initialize"}]_vars

\* a running task was stopped, and the time of its next cycle has come
TaskStoppedWitness ==
    /\ run.op = "stop_background_refresh" /\ refresh_task = "done"
    /\ live_tasks = 0 /\ now >= jwks_background_refresh_sec

\* C17: the step that ends a refresh cycle leaves the task live and asleep
\* for another interval, however many fetches of the cycle raised; the task
\* ends only in a step of stop_background_refresh.
LoopSurvivesErrors ==
    [][/\ (run.op = "background" /\ run.pc = "fetch" /\ run'.pc = "done") =>
              /\ refresh_task' = "sleeping" /\ live_tasks' = 1
              /\ wake_at' = now + jwks_background_refresh_sec
              /\ last_cycle' = "failed" <=> run'.errors > 0
       /\ (refresh_task = "sleeping" /\ refresh_task' # "sleeping") =>
              run'.op = "stop_background_refresh"]_vars

\* a further cycle has begun after a cycle whose fetches all raised
LoopSurvivesErrorsWitness ==
    /\ run.op = "background" /\ run.pc = "fetch"
    /\ last_cycle = "failed" /\ cache = << >>

\* C18: a call of _fetch_jwks that is not forced and finds the endpoint's
\* timestamp younger than the TTL makes no request and leaves the cache and
\* the timestamps alone; a call that is not forced and finds no timestamp, or
\* one as old as the TTL or older, and every forced call, makes the request.
\* (initialize fetches unforced, get_key and the background loop forced.)
FetchCall == run.pc = "fetch" /\ run'.fetched = Append(run.fetched, run.idx)
Forced == run.op # "initialize"
Young ==
    /\ CacheKey(jwks_urls[run.idx]) \in DOMAIN cache_timestamps
    /\ run.t0 - cache_timestamps[CacheKey(jwks_urls[run.idx])] < jwks_cache_ttl_sec

FetchPolicy ==
    [][FetchCall =>
           IF ~Forced /\ Young
           THEN /\ ~run'.net
                /\ cache' = cache /\ cache_timestamps' = cache_timestamps
           ELSE run'.net]_vars

\* initialize found an endpoint's key set fresh and did not ask for it again
FetchPolicyWitness ==
    /\ run.op = "initialize" /\ run.fetched # << >> /\ ~run.net
    /\ CacheKey(LastFetched) \in DOMAIN cache_timestamps
    /\ now - cache_timestamps[CacheKey(LastFetched)] < jwks_cache_ttl_sec

\* C19: the cache lock is never held while a request for a key set is
\* outstanding.
NoLockAcrossFetch == ~(lock /\ run.pc = "fetch")

\* C20: every write of the cache or of its timestamps, and the read of
\* get_cached_keys, is made with the cache lock held.
LockGuardsMapping ==
    [][(\/ cache' # cache
        \/ cache_timestamps' # cache_timestamps
        \/ (run'.op = "get_cached_keys" /\ run' # run)) => lock]_vars

\* C21: a token that has not three segments, or whose first segment is not
\* base64url JSON, or whose header has no kid, ends in an error (for the missing
\* kid: "Missing 'kid' in header") without get_key being called: no lookup, no
\* lock, no request, the cache and its timestamps as they were; validate_jwt
\* waits for an endpoint only for a token with three segments and a kid.
Malformed(token) ==
    \/ token.shape \in {"segments", "header_garbage"}
    \/ token.shape = "ok" /\ ~Has(token.kid)

MalformedWithoutLookup ==
    run.op = "validate" =>
        /\ run.pc = "fetch" => ~Malformed(run.token)
        /\ (run.pc = "done" /\ Malformed(run.token)) =>
               /\ run.out.claims = NoClaims /\ run.out.error # NoError
               /\ run.kid = "" /\ ~run.hit /\ run.result = None
               /\ run.fetched = << >> /\ ~lock
               /\ cache_timestamps = [k \in DOMAIN cache |-> 0]
               /\ (run.token.shape = "ok") =>
                      run.out.error = <<Failed, "Missing 'kid' in header">>

\* a token of two segments whose header names a cached kid, refused unresolved
MalformedWithoutLookupWitness ==
    /\ Validated /\ run.token.shape = "segments" /\ run.token.kid = <<"k1">>
    /\ CacheKey(UrlPrimary) \in DOMAIN cache
    /\ run.out.error = <<Failed, "Failed to parse JWT header: Invalid JWT format">>

\* C22: when the token's kid is in no cached key set and get_key has not found
\* it by the forced refresh of every endpoint either, validate_jwt returns the
\* error "Key '<kid>' not found", whatever the token's alg, signature and
\* claims are: nothing of the token is verified.
KeyNotFoundNamesKid ==
    (Validated /\ run.token.shape = "ok" /\ Has(run.token.kid) /\ run.result = None) =>
        /\ ~run.hit /\ run.fetched = AllUrls
        /\ FindCached(cache, 1, Val(run.token.kid)) = None
        /\ run.out =
               Returned(NoClaims, <<Failed, "Key '", Val(run.token.kid), "' not found">>)

\* a forged HS256 token of an unknown kid: the answer is about the key
KeyNotFoundNamesKidWitness ==
    /\ Validated /\ run.token.kid = <<"k3">> /\ run.token.sig = "forged"
    /\ run.token.alg = <<"HS256">> /\ run.fetched = AllUrls
    /\ run.out.error = <<Failed, "Key '", "k3", "' not found">>

\* the token's kid resolved to a usable key, its header names RS256, the key's
\* pair signed it, and its iat, exp, nbf pass jwt.decode and the skew window
SignedAndTimely ==
    /\ Validated /\ run.token.shape = "ok" /\ Has(run.token.kid)
    /\ run.result # None /\ run.result.mat # "bad"
    /\ run.token.alg = <<"RS256">> /\ run.token.sig = run.result.mat
    /\ JwtDecodeTimes(run.token, now) = NoExc
    /\ InWindow(run.token.iat) /\ InWindow(run.token.exp) /\ InWindow(run.token.nbf)

MissingNames ==
    {n \in {"sub", "aud", "iss"} : ~Has(Payload(run.token)[n])}

\* C23: a correctly signed token that lacks sub, aud or iss is refused with the
\* message "Missing required claim: <name>", <name> being a claim it lacks; a
\* token without aud gets "Missing required claim: aud".
MissingClaimNamed ==
    (SignedAndTimely /\ MissingNames # {}) =>
        /\ run.out.claims = NoClaims
        /\ \E n \in MissingNames :
               run.out.error = <<Failed, "Missing required claim: ", n>>
        /\ ~Has(run.token.aud) =>
               run.out.error = <<Failed, "Missing required claim: ", "aud">>

\* a token good in everything but, possibly, its exp
GoodButExp ==
    /\ NonTemporalOk
    /\ Has(run.token.iat) => (Val(run.token.iat) <= now /\ InWindow(run.token.iat))
    /\ Has(run.token.nbf) => (Val(run.token.nbf) <= now /\ InWindow(run.token.nbf))

ExpirationDriftMessage ==
    <<Failed, "Expiration time drift exceeds ", ToString(max_clock_skew_sec), " seconds">>

\* C24 as stated: a token whose exp differs from now by more than the skew, to
\* the past or to the future, is refused with a message that names
\* "Expiration time drift".
ExpirationDriftEitherWay ==
    (GoodButExp /\ Drift(run.token.exp, now)) =>
        (run.out.claims = NoClaims /\ run.out.error = ExpirationDriftMessage)

\* C24, amended: such a token is refused either way; with exp more than the
\* skew after now the message is "Expiration time drift exceeds <skew>
\* seconds"; with exp at or before now, within the skew or beyond it, jwt.decode
\* has refused it first and the message is "Token has expired".
ExpirationDriftOrExpired ==
    (GoodButExp /\ Has(run.token.exp)) =>
        /\ Val(run.token.exp) <= now =>
               run.out = Returned(NoClaims, <<Failed, "Token has expired">>)
        /\ Val(run.token.exp) > now + max_clock_skew_sec =>
               run.out = Returned(NoClaims, ExpirationDriftMessage)
        /\ Drift(run.token.exp, now) => run.out.claims = NoClaims

\* exp more than the skew in the past: expired, no drift message
ExpirationDriftOrExpiredWitness ==
    /\ GoodButExp /\ Has(run.token.exp)
    /\ now - Val(run.token.exp) > max_clock_skew_sec
    /\ run.out.error = <<Failed, "Token has expired">>

\* the audience or issuer check is the first that the token fails
AudienceMismatch ==
    /\ SignedAndTimely /\ Has(run.token.sub) /\ Has(run.token.aud)
    /\ Has(run.token.iss) /\ InList(Val(run.token.iss), allowed_issuers)
    /\ Val(run.token.aud) # AudStr(cop_audience)

IssuerMismatch ==
    /\ SignedAndTimely /\ Has(run.token.iss)
    /\ ~InList(Val(run.token.iss), allowed_issuers)

Mentions(error, parts) == \A i \in DOMAIN parts : InList(parts[i], error)

\* C25 as stated: a token refused for its audience gets a message with the
\* offending and the expected value (aud "OTHER": the message cites "OTHER" and
\* "TSIAM"), one refused for its issuer a message with the offending issuer.
MismatchNamesValues ==
    /\ AudienceMismatch =>
           /\ run.out.claims = NoClaims
           /\ Mentions(run.out.error, <<cop_audience>> \o Val(run.token.aud).vals)
    /\ IssuerMismatch =>
           /\ run.out.claims = NoClaims
           /\ Mentions(run.out.error, <<Val(run.token.iss)>>)

\* C25, amended: both mismatches are refused.  An aud that does not hold the
\* expected audience (a string other than it, or a list without it) gets
\* "Invalid audience" and an issuer outside the allow-list gets "Invalid
\* issuer", neither message carrying a value of the token or of the settings;
\* only an aud list that holds the expected audience gets the message with the
\* expected and the offending value.
MismatchMessages ==
    /\ (AudienceMismatch /\ ~InList(cop_audience, Val(run.token.aud).vals)) =>
           run.out = Returned(NoClaims, <<Failed, "Invalid audience">>)
    /\ (AudienceMismatch /\ InList(cop_audience, Val(run.token.aud).vals)) =>
           run.out = Returned(NoClaims,
                              <<Failed, "Invalid audience: expected '", cop_audience,
                                "', got '">> \o AudText(Val(run.token.aud)) \o <<"'">>)
    /\ IssuerMismatch => run.out = Returned(NoClaims, <<Failed, "Invalid issuer">>)

\* aud "OTHER" on a token good otherwise: neither value is in the message
MismatchMessagesWitness ==
    /\ AudienceMismatch /\ run.token.aud = <<AudStr("OTHER")>>
    /\ run.out.error = <<Failed, "Invalid audience">>

SingleRequired == ScopeOp /\ Len(run.required.names) = 1

\* C27: for one required scope s the single and the list forms decide alike:
\* whichever of has_scope(c, s), has_any_scope(c, [s]), check_scope_access(c, s),
\* check_scope_access(c, [s]), require_scope(s), require_any_scope([s]) has
\* decided, its decision is the decision each of the others makes on the same
\* claims.
SingleAndListFormsAgree ==
    SingleRequired =>
        /\ run.allowed = HasScope(Claims, run.required.names[1])
        /\ run.allowed = HasAnyScope(Claims, run.required.names)
        /\ run.allowed = CheckScopeAccess(Claims, ReqStr(run.required.names[1]))
        /\ run.allowed = CheckScopeAccess(Claims, ReqList(run.required.names))
        /\ run.allowed = InList(run.required.names[1], ExtractScope(Claims))
        /\ run.allowed = AnyScope(run.required.names, ExtractScope(Claims))

\* require_any_scope(["Write"]) admits a token whose scope string holds Write
\* second: the decision require_scope("Write") and has_scope make
SingleAndListFormsAgreeWitness ==
    /\ run.op = "require_any_scope" /\ run.required = ReqList(<<Write>>)
    /\ run.allowed /\ run.token.scope = WireScope
    /\ HasScope(Claims, Write) /\ ~HasScopeFirstOnly(Claims, Write)

Answered == run.op = "request" /\ run.pc = "done"
TokenValidated == Answered /\ run.attempts > 0 /\ run.out.error = NoError
ValidationFailed == Answered /\ run.attempts > 0 /\ run.out.error # NoError
HandlerReached == Answered /\ run.response.by = "handler"

NoCredentialsIs401 ==
    (Answered /\ run.req.route = AuthValidate /\ ~run.req.credentials) =>
        /\ run.response = HttpException("auth", 401, <<"Authorization header required">>)
        /\ run.attempts = 0 /\ run.fetched = << >> /\ run.out = Passed

\* C30: the request path validates a second time after a key-not-found
\* failure, so a request is answered 401 "Key '<kid>' not found" only after
\* two calls of validate_jwt have failed.
RetriesOnceAfterKeyNotFound ==
    (Answered /\ run.response.status = 401 /\ Has(run.token.kid)
       /\ run.response.error_message =
              <<Failed, "Key '", Val(run.token.kid), "' not found">>) =>
        run.attempts = 2

\* C26: get_key absorbs what its endpoints do: no exception leaves it,
\* whether the endpoints are unreachable or answer with a body that is not a
\* key set, now or in an earlier call; when every endpoint fails it returns
\* the cached record of a cached kid and not-found for any other kid.
GetKeyAbsorbsFetchFailures ==
    (run.op = "get_key" /\ run.pc = "done") =>
        /\ run.out.exc = ""
        /\ run.hit => (run.result.kid = run.kid /\ run.fetched = << >>)
        /\ (~run.hit /\ run.errors = Len(jwks_urls)) => run.result = None

CancelStep == StopStep /\ refresh_task = "sleeping"

StepFails(n) ==
    LET token == run.token
        key == run.result
    IN  CASE n = 1 -> token.shape # "ok"
          [] n = 2 -> ~Has(token.kid)
          [] n = 3 -> key = None
          [] n = 4 -> key.mat = "bad"
          [] n = 5 -> token.alg # <<"RS256">>
          [] n = 6 -> token.sig # key.mat
          [] n = 7 -> Has(token.iat) /\ Val(token.iat) > now
          [] n = 8 -> Has(token.nbf) /\ Val(token.nbf) > now
          [] n = 9 -> Has(token.exp) /\ Val(token.exp) <= now
          [] n = 10 -> ~Has(token.iss) \/ ~InList(Val(token.iss), allowed_issuers)
          [] n = 11 -> ~Has(token.aud) \/ ~InList(cop_audience, Val(token.aud).vals)
          [] n = 12 -> Drift(token.iat, now)
          [] n = 13 -> Drift(token.exp, now)
          [] n = 14 -> Drift(token.nbf, now)
          [] n = 15 -> ~Has(token.sub)
          [] n = 16 -> Val(token.aud) # AudStr(cop_audience)

\* the step an error message comes from, by its text
StepOf(error) ==
    LET m == error[2]
    IN  CASE m \in {"Failed to parse JWT header: Invalid JWT format",
                    "Failed to parse JWT header: (decoder message)",
                    "object has no attribute 'get'"} -> 1
          [] m = "Missing 'kid' in header" -> 2
          [] m = "Key '" -> 3
          [] m = "Failed to convert JWK to PEM: (message)" -> 4
          [] m \in {"Algorithm not specified",
                    "The specified alg value is not allowed"} -> 5
          [] m = "Signature verification failed" -> 6
          [] m = "The token is not yet valid (iat)" -> 7
          [] m = "The token is not yet valid (nbf)" -> 8
          [] m = "Token has expired" -> 9
          [] m \in {"Token is missing the \"iss\" claim", "Invalid issuer"} -> 10
          [] m \in {"Token is missing the \"aud\" claim", "Invalid audience"} -> 11
          [] m = "Issued at time drift exceeds " -> 12
          [] m = "Expiration time drift exceeds " -> 13
          [] m = "Not before time drift exceeds " -> 14
          [] m = "Missing required claim: " -> 15
          [] m = "Invalid audience: expected '" -> 16
          [] OTHER -> 0

RECURSIVE FirstFailingStep(_)
FirstFailingStep(n) ==
    IF n > 16 THEN 0
    ELSE IF StepFails(n) THEN n
    ELSE FirstFailingStep(n + 1)

ExpirationFailure(error) ==
    error \in {ExpirationDriftMessage, <<Failed, "Token has expired">>}

\* C32 as stated: the reported error is that of the earliest failing step in
\* the order structure, kid, key lookup, algorithm, signature, temporal claims,
\* required claims, audience, issuer; so a token that passes up to the
\* signature, has iat within the skew and exp beyond it, is reported as an
\* expiration failure whatever its audience and issuer are.
TemporalBeforeAudience ==
    (/\ Validated /\ run.token.shape = "ok" /\ Has(run.token.kid)
     /\ run.result # None /\ run.result.mat = run.token.sig
     /\ run.token.alg = <<"RS256">>
     /\ InWindow(run.token.iat) /\ Drift(run.token.exp, now)) =>
        ExpirationFailure(run.out.error)

\* C32, amended: the checks short-circuit, and the reported error is that of
\* the earliest failing step in the order: structure, kid, key lookup, key
\* conversion, algorithm, signature, iat in the future, nbf in the future, exp
\* not after now, issuer (missing or not allowed), audience (missing or not
\* holding the expected one), then the skew window of iat, of exp and of nbf,
\* the presence of sub, and the audience being the expected string itself.  A
\* token is accepted iff no step fails.
EarliestFailingStep ==
    Validated =>
        /\ (run.out.error = NoError) <=> (FirstFailingStep(1) = 0)
        /\ (run.out.error # NoError) => StepOf(run.out.error) = FirstFailingStep(1)

\* exp beyond the skew in the future and a wrong audience: an audience failure
EarliestFailingStepWitness ==
    /\ Validated /\ run.token.exp = <<MaxTokenTime>> /\ Drift(run.token.exp, now)
    /\ run.token.aud = <<AudStr("OTHER")>>
    /\ run.out.error = <<Failed, "Invalid audience">>
    /\ StepOf(run.out.error) = 11 /\ StepFails(13)

FetchedUrl == jwks_urls[run.idx]
FetchStored == FetchCall /\ run'.net /\ ~run'.raised
Kids(keys) == {keys[i].kid : i \in DOMAIN keys}

\* C33: a fetch that succeeds replaces the endpoint's key set as a whole:
\* after the step the endpoint's entry is the response's key list, the kids
\* that resolve from it are exactly the response's kids, its timestamp is the
\* time of the fetch, set in the same step, and the other endpoints' entries
\* are as before; the cache and the timestamps change in no other step, so
\* every entry a get_key reads is one complete response.
WholeKeySetReplaced ==
    [][/\ FetchStored =>
              /\ cache' = Put(cache, CacheKey(FetchedUrl), run'.resp.keys)
              /\ cache_timestamps' = Put(cache_timestamps, CacheKey(FetchedUrl), run.t0)
              /\ \A kid \in AskKids :
                     (FindInEntry(cache', FetchedUrl, kid) # None)
                         <=> (kid \in Kids(run'.resp.keys))
       /\ (cache' # cache \/ cache_timestamps' # cache_timestamps) => FetchStored
       /\ DOMAIN cache' = DOMAIN cache_timestamps'
       /\ \A k \in DOMAIN cache' : cache'[k] \in KeyLists]_vars

\* get_key('k1') missed although the primary endpoint's entry is there: k1 is
\* not in it, and the fetch of the primary endpoint has put k2 alone in it
WholeKeySetReplacedWitness ==
    /\ run.op = "get_key" /\ run.kid = "k1" /\ run.pc = "done" /\ ~run.hit
    /\ run.result = None /\ run.resp.kind # "ok"
    /\ CacheKey(UrlPrimary) \in DOMAIN cache
    /\ cache[CacheKey(UrlPrimary)] = <<K2A>>
    /\ cache_timestamps[CacheKey(UrlPrimary)] = now /\ now > 0

\* the record of kid that is listed last in keys
LastListed(keys, kid) ==
    keys[CHOOSE i \in DOMAIN keys :
             /\ keys[i].kid = kid
             /\ \A j \in (i + 1)..Len(keys) : keys[j].kid # kid]

\* C34: no cached key set holds two records of one kid, and a kid that get_key
\* resolves from a key set is resolved to the record listed last for it in the
\* response the key set came from.
OneRecordPerKid ==
    /\ \A k \in DOMAIN cache : \A i, j \in DOMAIN cache[k] :
           cache[k][i].kid = cache[k][j].kid => i = j
    /\ (run.op = "get_key" /\ run.pc = "done" /\ run.result # None) =>
           \E k \in DOMAIN cache :
               /\ run.kid \in Kids(cache[k])
               /\ run.result = LastListed(cache[k], run.kid)

CycleBegins == run'.op = "background" /\ run'.pc = "fetch" /\ run'.fetched = << >>
                  /\ run' # run
BackgroundFetchStep == run.op = "background" /\ FetchCall

GetKeyCalled(kid) ==
    /\ run.pc = "done" /\ run' # run
    /\ run'.op = "get_key" /\ run'.kid = kid
Expired(k) == now - cache_timestamps[k] >= jwks_cache_ttl_sec

\* C37: a get_key for a kid that some cached key set holds returns the cached
\* record in the step of the call, with no request to any endpoint and with
\* the cache and its timestamps as they were, whatever the age of the key set;
\* a get_key goes on to fetch only when no cached key set holds the kid.
HitNeedsNoFetch ==
    [][\A kid \in AskKids :
          GetKeyCalled(kid) =>
              IF FindCached(cache, 1, kid) # None
              THEN /\ run'.pc = "done" /\ run'.hit
                   /\ run'.result = FindCached(cache, 1, kid)
                   /\ run'.fetched = << >> /\ ~run'.net
                   /\ cache' = cache /\ cache_timestamps' = cache_timestamps
                   /\ ~lock'
              ELSE run'.pc = "fetch" /\ ~run'.hit /\ lock']_vars

\* a hit on a key set that is as old as the TTL or older
HitNeedsNoFetchWitness ==
    /\ run.op = "get_key" /\ run.pc = "done" /\ run.hit /\ run.fetched = << >>
    /\ run.result # None
    /\ \E k \in DOMAIN cache :
           /\ Expired(k)
           /\ \E i \in DOMAIN cache[k] : cache[k][i] = run.result

TenantFetchStored(i) ==
    /\ run.op = "refresh_all" /\ run.pc = "fetch" /\ run.idx = i
    /\ run'.fetched = Append(run.fetched, i)
    /\ run'.net /\ ~run'.raised
EntryOf(c, url) == IF CacheKey(url) \in DOMAIN c THEN c[CacheKey(url)] ELSE << >>

\* C38: each configured endpoint owns a cache entry of its own: a successful
\* fetch of one endpoint leaves the key set cached for every other endpoint as
\* it was, also when the endpoints' urls differ in their query strings alone.
EndpointsOwnTheirEntries ==
    [][\A i \in DOMAIN TenantUrls : \A j \in DOMAIN TenantUrls \ {i} :
          (TenantFetchStored(i) /\ CacheKey(TenantUrls[j]) \in DOMAIN cache) =>
              EntryOf(cache', TenantUrls[j]) = EntryOf(cache, TenantUrls[j])]_vars

Lifetime(token) == Val(token.exp) - Val(token.iat)
SignedToken == run.token.shape = "ok" /\ run.token.sig = "A"

\* C39: a correctly signed token that lives longer than twice the clock skew
\* (exp - iat > 2 * max_clock_skew_sec) is rejected by validate_jwt whenever
\* it is verified, and a token verified at its issuance (iat = now) is
\* rejected when its exp is more than the skew ahead.
LongLivedTokenRejected ==
    (Validated /\ SignedToken /\ Has(run.token.iat) /\ Has(run.token.exp)) =>
        /\ Lifetime(run.token) > 2 * max_clock_skew_sec => ~Accepted
        /\ (Val(run.token.iat) = now /\ Val(run.token.exp) - now > max_clock_skew_sec)
               => ~Accepted

\* a token issued within the skew and otherwise good that lives longer than
\* twice the skew: the key was found and the expiration check refused it
LongLivedTokenRejectedWitness ==
    /\ Validated /\ SignedToken /\ run.result # None
    /\ Has(run.token.iat) /\ Has(run.token.exp)
    /\ Abs(now - Val(run.token.iat)) <= max_clock_skew_sec
    /\ Val(run.token.exp) > now
    /\ Lifetime(run.token) > 2 * max_clock_skew_sec
    /\ ExpirationFailure(run.out.error)

OtherwiseGood(token) ==
    /\ token.shape = "ok" /\ token.kid = <<"k1">> /\ token.alg = <<"RS256">>
    /\ token.sig = "A"
    /\ token.iat = GoodIat /\ token.exp = GoodExp /\ token.nbf = GoodNbf
    /\ token.sub = <<"S">> /\ token.aud = <<AudStr("TSIAM")>>

\* C40: with the empty issuer allow-list of the default settings validate_jwt
\* ends with an error and no claims for every token, whatever its iss, a
\* token that is good in everything else included.
EmptyAllowListRejectsAll ==
    (allowed_issuers = DefaultIssuers /\ Validated) =>
        /\ ~Accepted
        /\ run.out.error # NoError

\* a token good in everything else, its key found, refused for its issuer
EmptyAllowListRejectsAllWitness ==
    /\ allowed_issuers = DefaultIssuers /\ Validated
    /\ OtherwiseGood(run.token) /\ Has(run.token.iss)
    /\ run.result = K1A
    /\ run.out.error = <<Failed, "Invalid issuer">>

====
